---- MODULE Spec2Model ----
(***************************************************************************)
(* CRISPR guide design core: the guide finder (src/src/find_guides.py),    *)
(* the efficiency scorer (src/src/score_guides.py), the off-target search  *)
(* and risk assessment (src/src/offtarget_prediction.py), and the analysis *)
(* run of the interface that drives them (src/interface.py).               *)
(*                                                                         *)
(* A DNA string is a sequence of one-character strings, so that indexing   *)
(* and slicing are those of the Python code (0-based offsets in the code   *)
(* are written o, the 1-based TLA+ index is o + 1).                        *)
(***************************************************************************)
EXTENDS Integers, Sequences, FiniteSets, TLC

VARIABLES
    pc,               \* position of the call being modelled
    sequence,         \* input of find_pam_sites / find_all_guides
    pam_sites,        \* list returned by find_pam_sites
    guides_df,        \* guide table: returned by find_all_guides, input of score_all_guides
    sequence_length,  \* optional argument of the scorer: None or Some(n)
    scored_df,        \* table returned by score_all_guides
    gc_content,       \* input of score_gc_content, in 1/10000 of a percent
    guide_sequence,   \* guide argument of calculate_efficiency_score / find_similar_sequences
    pam_position,     \* optional argument of calculate_efficiency_score: None or Some(p)
    target_sequence,  \* target argument of find_similar_sequences
    max_mismatches,   \* mismatch budget of find_similar_sequences
    result,           \* value returned by the scalar calls and by find_similar_sequences
    max_risk_level,   \* risk ceiling handed to filter_by_offtarget_risk
    include_offtarget,\* the interface's "Include Off-Target Analysis" checkbox
    frames,           \* the DataFrame objects of an interface run, in order of creation
    refs,             \* the interface's table variables: name -> position in frames (0: unbound)
    calls             \* the core functions an interface run has called, in order

uiVars == <<max_risk_level, include_offtarget, frames, refs, calls>>

vars == <<pc, sequence, pam_sites, guides_df, sequence_length, scored_df, gc_content,
          guide_sequence, pam_position, target_sequence, max_mismatches, result,
          max_risk_level, include_offtarget, frames, refs, calls>>

(***************************************************************************)
(* Bounds of the model.                                                    *)
(***************************************************************************)
MaxHead == 1          \* bases drawn freely in front of a fixed body
MaxTail == 3          \* bases drawn freely behind a fixed body
GcResolution == 4     \* GC percentages are drawn in steps of 1/GcResolution percent
MaxSeqLength == 24    \* largest sequence_length handed to calculate_efficiency_score
MaxGuideLen == 3      \* longest guide handed to find_similar_sequences
MaxTargetLen == 4     \* longest target handed to find_similar_sequences
MaxBudget == 3        \* largest max_mismatches handed to find_similar_sequences
MaxLongBudget == 6    \* largest max_mismatches tried on the 20-base test guide
MaxUiTail == 3        \* bases drawn freely behind a fixed body in an interface run

(***************************************************************************)
(* Program constants.                                                      *)
(***************************************************************************)
GuideLength == 20     \* guide_length default of extract_guide_sequence
PamLength == 3        \* width of the NGG window: sequence[pam_pos:pam_pos+3]

None == <<>>          \* Python None; `if guide:` treats None and "" alike
Some(v) == <<v>>      \* a present optional argument (absent is None)
NoValue == "None"     \* a variable the call being modelled does not use

(***************************************************************************)
(* Strings.                                                                *)
(***************************************************************************)
Min(a, b) == IF a <= b THEN a ELSE b
Max(a, b) == IF a >= b THEN a ELSE b

\* str.upper() on one character: a lower-case ASCII letter becomes its
\* capital, every other character stays as it is.
LowerCase ==
    <<"a", "b", "c", "d", "e", "f", "g", "h", "i", "j", "k", "l", "m",
      "n", "o", "p", "q", "r", "s", "t", "u", "v", "w", "x", "y", "z">>
UpperCase ==
    <<"A", "B", "C", "D", "E", "F", "G", "H", "I", "J", "K", "L", "M",
      "N", "O", "P", "Q", "R", "S", "T", "U", "V", "W", "X", "Y", "Z">>
Capital ==
    [c \in {LowerCase[i] : i \in 1..Len(LowerCase)} |->
        UpperCase[CHOOSE i \in 1..Len(LowerCase) : LowerCase[i] = c]]
UpperChar(c) == IF c \in DOMAIN Capital THEN Capital[c] ELSE c

upper(s) == [k \in 1..Len(s) |-> UpperChar(s[k])]

\* Python slice s[a:b] for 0 <= a: the end is clamped to len(s).
Slice(s, a, b) == SubSeq(s, a + 1, Min(b, Len(s)))

\* Bio.Seq complement of one base; N and unknown characters map to themselves.
ComplementChar(c) ==
    CASE c = "A" -> "T"
      [] c = "T" -> "A"
      [] c = "G" -> "C"
      [] c = "C" -> "G"
      [] OTHER -> c

\* str(Seq(s).reverse_complement())
reverse_complement(s) == [k \in 1..Len(s) |-> ComplementChar(s[Len(s) + 1 - k])]

\* range(n) as a list.
Range(n) == [k \in 1..Max(n, 0) |-> k - 1]

(***************************************************************************)
(* find_guides.py                                                          *)
(***************************************************************************)
PamPattern == <<"G", "G">>

\* Mutant: the window test reads s[i:i+2] instead of s[i+1:i+3].
find_pam_sites_window_at_i(seq) ==
    LET s == upper(seq)
        IsPam(i) == Slice(s, i, i + 2) = PamPattern
    IN  SelectSeq(Range(Len(s) - 2), IsPam)

find_pam_sites(seq) ==
    LET s == upper(seq)
        IsPam(i) == Slice(s, i + 1, i + 3) = PamPattern
    IN  SelectSeq(Range(Len(s) - 2), IsPam)

\* Mutant: a guide starting at offset 0 is rejected (guide_start <= 0).
extract_guide_sequence_start_le_0(seq, pam_pos) ==
    LET s == upper(seq)
        guide_start == pam_pos - GuideLength
        guide_end == pam_pos
    IN  IF guide_start <= 0 THEN None
        ELSE LET guide == Slice(s, guide_start, guide_end)
             IN  IF Len(guide) # GuideLength THEN None ELSE guide

extract_guide_sequence(seq, pam_pos) ==
    LET s == upper(seq)
        guide_start == pam_pos - GuideLength
        guide_end == pam_pos
    IN  IF guide_start < 0 THEN None
        ELSE LET guide == Slice(s, guide_start, guide_end)
             IN  IF Len(guide) # GuideLength THEN None ELSE guide

\* One row of the guide table.  index is the DataFrame's row label, which
\* pd.DataFrame(list) sets to the position in the list.
GuideRow(idx, guide, site, pam, strand) ==
    [index |-> idx, guide_sequence |-> guide, pam_site |-> site,
     pam_sequence |-> pam, strand |-> strand, full_target |-> guide \o pam]

\* Mutant: the reverse-strand coordinate forgets the PAM width
\* (original_pos = len(sequence) - pam_pos).
StrandGuides_no_pam_width(scanned, strand, orig_len) ==
    LET sites == find_pam_sites(scanned)
        HasGuide(p) == extract_guide_sequence(scanned, p) # None
        kept == SelectSeq(sites, HasGuide)
    IN  [k \in 1..Len(kept) |->
            LET p == kept[k]
            IN  GuideRow(0,
                         extract_guide_sequence(scanned, p),
                         IF strand = "+" THEN p ELSE orig_len - p,
                         Slice(scanned, p, p + PamLength),
                         strand)]

\* The rows one strand contributes, before row labels are assigned.
\* scanned is the string being scanned, orig_len the length of the input.
StrandGuides(scanned, strand, orig_len) ==
    LET sites == find_pam_sites(scanned)
        HasGuide(p) == extract_guide_sequence(scanned, p) # None
        kept == SelectSeq(sites, HasGuide)
    IN  [k \in 1..Len(kept) |->
            LET p == kept[k]
            IN  GuideRow(0,
                         extract_guide_sequence(scanned, p),
                         IF strand = "+" THEN p ELSE orig_len - p - PamLength,
                         Slice(scanned, p, p + PamLength),
                         strand)]

\* Mutant: the reverse strand is scanned and appended first.
find_all_guides_reverse_first(seq) ==
    LET s == upper(seq)
        rev_seq == reverse_complement(s)
        rows == StrandGuides(rev_seq, "-", Len(s)) \o StrandGuides(s, "+", Len(s))
    IN  [k \in 1..Len(rows) |-> [rows[k] EXCEPT !.index = k - 1]]

find_all_guides(seq) ==
    LET s == upper(seq)
        rev_seq == reverse_complement(s)
        rows == StrandGuides(s, "+", Len(s)) \o StrandGuides(rev_seq, "-", Len(s))
    IN  [k \in 1..Len(rows) |-> [rows[k] EXCEPT !.index = k - 1]]

(***************************************************************************)
(* score_guides.py                                                         *)
(*                                                                         *)
(* Percentages and sub-scores are exact decimals held as integers in units *)
(* of 1/10000 (so 35% is 350000); the efficiency score, which the code     *)
(* rounds to 2 decimals, is held in hundredths (75.0 is 7500).             *)
(***************************************************************************)
Pct(n) == n * 10000

\* round(num / den) for num >= 0, den > 0, ties to even as Python's round
\* (used where the rounded double is exact: (gc_count / 20) * 100).
RoundHalfEven(num, den) ==
    LET q == num \div den
        r == num % den
    IN  IF 2 * r < den THEN q
        ELSE IF 2 * r > den THEN q + 1
        ELSE IF q % 2 = 0 THEN q ELSE q + 1

\* str.count of one character.
Count(s, c) == Cardinality({k \in 1..Len(s) : s[k] = c})

\* `sub in s` for strings.
Contains(s, sub) ==
    \E a \in 0..(Len(s) - Len(sub)) : SubSeq(s, a + 1, a + Len(sub)) = sub

\* round((gc_count / len) * 100, 2), in units of 1/10000.
calculate_gc_content(seq) ==
    LET s == upper(seq)
    IN  IF Len(s) = 0 THEN 0
        ELSE LET gc_count == Count(s, "G") + Count(s, "C")
             IN  RoundHalfEven(gc_count * 100 * 100, Len(s)) * 100

PolyTThreshold == 4

has_poly_t(seq) ==
    LET s == upper(seq)
        poly_t == [k \in 1..PolyTThreshold |-> "T"]
    IN  Contains(s, poly_t)

\* Mutant: the two penalty slopes are swapped with the harsh factor (1.67
\* is applied inside the acceptable range as well).
score_gc_content_harsh_everywhere(gc) ==
    IF Pct(40) <= gc /\ gc <= Pct(60) THEN Pct(100)
    ELSE IF gc < Pct(40) THEN Max(0, (gc * 167) \div 100)
    ELSE Max(0, ((Pct(100) - gc) * 167) \div 100)

\* gc and the result are in units of 1/10000; gc is a multiple of 0.01%, so
\* gc * 1.67 is a whole number of units.
score_gc_content(gc) ==
    IF Pct(40) <= gc /\ gc <= Pct(60) THEN Pct(100)
    ELSE IF Pct(30) <= gc /\ gc < Pct(40) THEN Pct(50) + (gc - Pct(30)) * 5
    ELSE IF Pct(60) < gc /\ gc <= Pct(70) THEN Pct(50) + (Pct(70) - gc) * 5
    ELSE IF gc < Pct(30) THEN Max(0, (gc * 167) \div 100)
    ELSE Max(0, ((Pct(100) - gc) * 167) \div 100)

\* The position score multiplied by sequence_length (an integer):
\* relative_position <= 0.5 is 2 * pam_position <= sequence_length, and
\* 100 - (p / L - 0.5) * 100 is (150 * L - 100 * p) / L.
calculate_position_score(pam_pos, seq_len) ==
    IF 2 * pam_pos <= seq_len THEN 100 * seq_len
    ELSE 150 * seq_len - 100 * pam_pos

PolyTPenalty == 30

\* The overall score before the penalty, as a numerator over EffDen (the
\* denominator is 100000 with no position, 100000 * sequence_length with one).
EffDen(pam_pos, seq_len) ==
    IF pam_pos # None /\ seq_len # None THEN 100000 * seq_len[1] ELSE 100000

EffNum(guide, pam_pos, seq_len) ==
    LET gc_score == score_gc_content(calculate_gc_content(guide))
    IN  IF pam_pos # None /\ seq_len # None
        THEN 4 * gc_score * seq_len[1]
                + 30000 * calculate_position_score(pam_pos[1], seq_len[1])
                + 30 * 100000 * seq_len[1]
        ELSE 10 * gc_score

\* round(num / den, 2-decimal grid) as the code's double arithmetic can give
\* it.  The code rounds a binary double: when the exact decimal value lies
\* exactly halfway between two hundredths the double is a hair above or below
\* it, and either neighbour is returned (both happen: 'G' + 'T' * 19 at 9 of 16
\* gives 31.47 for 31.465, 'GC' + 'T' * 18 at 11 of 16 gives 31.05 for 31.055).
Round2(num, den) ==
    LET q == num \div den
        r == num % den
    IN  IF 2 * r < den THEN {q}
        ELSE IF 2 * r > den THEN {q + 1}
        ELSE {q, q + 1}

\* Mutant: the poly-T penalty is subtracted without the floor at 0.
calculate_efficiency_score_no_floor(guide, pam_pos, seq_len) ==
    LET den == EffDen(pam_pos, seq_len)
        polyt_penalty == IF has_poly_t(guide) THEN PolyTPenalty ELSE 0
        overall == EffNum(guide, pam_pos, seq_len) - polyt_penalty * den
    IN  IF overall >= 0 THEN Round2(overall, den \div 100)
        ELSE {0 - v : v \in Round2(0 - overall, den \div 100)}

\* The values round(overall_score, 2) can take, in hundredths: one value,
\* or two at an exact decimal tie (see Round2).
calculate_efficiency_score(guide, pam_pos, seq_len) ==
    LET den == EffDen(pam_pos, seq_len)
        polyt_penalty == IF has_poly_t(guide) THEN PolyTPenalty ELSE 0
        overall == Max(0, EffNum(guide, pam_pos, seq_len) - polyt_penalty * den)
    IN  Round2(overall, den \div 100)

\* The efficiency_score column: one list of scores per way the rows' scores
\* can round (see Round2), rows 1..k of the table.
RECURSIVE EfficiencyColumn(_, _, _)
EfficiencyColumn(df, seq_len, k) ==
    IF k = 0 THEN {<<>>}
    ELSE LET row == df[k]
             scores == IF seq_len # None /\ seq_len[1] # 0    \* `if sequence_length:`
                       THEN calculate_efficiency_score(row.guide_sequence,
                                                       Some(row.pam_site), seq_len)
                       ELSE calculate_efficiency_score(row.guide_sequence, None, None)
         IN  {Append(col, e) : col \in EfficiencyColumn(df, seq_len, k - 1), e \in scores}

\* A row of the guide table with the three score columns added.
ScoredRow(row, eff) ==
    [index |-> row.index, guide_sequence |-> row.guide_sequence,
     pam_site |-> row.pam_site, pam_sequence |-> row.pam_sequence,
     strand |-> row.strand, full_target |-> row.full_target,
     gc_content |-> calculate_gc_content(row.guide_sequence),
     has_poly_t |-> has_poly_t(row.guide_sequence),
     efficiency_score |-> eff]

\* Mutant: the table is sorted in ascending order of efficiency_score.
RECURSIVE sort_values_ascending(_)
sort_values_ascending(rows) ==
    IF rows = {} THEN {<<>>}
    ELSE LET best == {r \in rows :
                        \A q \in rows : q.efficiency_score >= r.efficiency_score}
         IN  UNION {{<<r>> \o rest : rest \in sort_values_ascending(rows \ {r})} : r \in best}

\* DataFrame.sort_values('efficiency_score', ascending=False) with the default
\* kind='quicksort', which is not a stable sort: rows of equal score may come
\* out in any order.  rows is the set of rows (row labels make them distinct);
\* the result is the set of orders the sort can return.
RECURSIVE sort_values(_)
sort_values(rows) ==
    IF rows = {} THEN {<<>>}
    ELSE LET best == {r \in rows :
                        \A q \in rows : q.efficiency_score <= r.efficiency_score}
         IN  UNION {{<<r>> \o rest : rest \in sort_values(rows \ {r})} : r \in best}

\* Mutant: ranks are numbered from 0 (range(len(scored_df))).
AddRank_from_zero(sorted) ==
    [k \in 1..Len(sorted) |->
        [f \in DOMAIN sorted[k] \cup {"rank"} |->
            IF f = "rank" THEN k - 1 ELSE sorted[k][f]]]

\* scored_df['rank'] = range(1, len(scored_df) + 1)
AddRank(sorted) ==
    [k \in 1..Len(sorted) |->
        [f \in DOMAIN sorted[k] \cup {"rank"} |->
            IF f = "rank" THEN k ELSE sorted[k][f]]]

\* The tables score_all_guides can return for a non-empty guide table.
score_all_guides(df, seq_len) ==
    UNION {LET rows == {ScoredRow(df[k], col[k]) : k \in 1..Len(df)}
           IN  {AddRank(sorted) : sorted \in sort_values(rows)}
           : col \in EfficiencyColumn(df, seq_len, Len(df))}

(***************************************************************************)
(* offtarget_prediction.py                                                 *)
(***************************************************************************)
Infinity == 1000000   \* float('inf'): larger than any mismatch budget

\* Mutant: N pairs with any base.
count_mismatches_n_wildcard(seq1, seq2) ==
    IF Len(seq1) # Len(seq2) THEN Infinity
    ELSE Cardinality({k \in 1..Len(seq1) :
                         seq1[k] # seq2[k] /\ seq1[k] # "N" /\ seq2[k] # "N"})

count_mismatches(seq1, seq2) ==
    IF Len(seq1) # Len(seq2) THEN Infinity
    ELSE Cardinality({k \in 1..Len(seq1) : seq1[k] # seq2[k]})

\* The hits of one scan: scanned is the target or its reverse complement.
ScanHits(guide, scanned, max_mm, strand) ==
    LET guide_length == Len(guide)
        Window(i) == Slice(scanned, i, i + guide_length)
        IsHit(i) == /\ count_mismatches(guide, Window(i)) <= max_mm
                    /\ count_mismatches(guide, Window(i)) > 0
        hits == SelectSeq(Range(Len(scanned) - guide_length + 1), IsHit)
    IN  [k \in 1..Len(hits) |->
            LET i == hits[k]
            IN  [position |-> IF strand = "+" THEN i
                              ELSE Len(scanned) - i - guide_length,
                 sequence |-> Window(i),
                 mismatches |-> count_mismatches(guide, Window(i)),
                 strand |-> strand]]

\* Mutant: perfect matches are reported too (mismatches >= 0).
find_similar_sequences_with_perfect(guide, target, max_mm) ==
    LET g == upper(guide)
        tg == upper(target)
        All(scanned, strand) ==
            LET idx == SelectSeq(Range(Len(scanned) - Len(g) + 1),
                                 LAMBDA i : count_mismatches(g, Slice(scanned, i, i + Len(g)))
                                                <= max_mm)
            IN  [k \in 1..Len(idx) |->
                    [position |-> IF strand = "+" THEN idx[k]
                                  ELSE Len(scanned) - idx[k] - Len(g),
                     sequence |-> Slice(scanned, idx[k], idx[k] + Len(g)),
                     mismatches |-> count_mismatches(g, Slice(scanned, idx[k], idx[k] + Len(g))),
                     strand |-> strand]]
    IN  All(tg, "+") \o All(reverse_complement(tg), "-")

find_similar_sequences(guide, target, max_mm) ==
    LET g == upper(guide)
        tg == upper(target)
        rev_target == reverse_complement(tg)
    IN  ScanHits(g, tg, max_mm, "+") \o ScanHits(g, rev_target, max_mm, "-")

\* Mutant: mismatch counts of 3 carry no weight.
MismatchWeight_no_3(mismatches) ==
    CASE mismatches = 1 -> 50
      [] mismatches = 2 -> 25
      [] mismatches = 4 -> 5
      [] OTHER -> 0

\* mismatch_weights.get(ot['mismatches'], 0)
MismatchWeight(mismatches) ==
    CASE mismatches = 1 -> 50
      [] mismatches = 2 -> 25
      [] mismatches = 3 -> 10
      [] mismatches = 4 -> 5
      [] OTHER -> 0

\* The loop `risk_score += weight` over the first n off-targets.
RECURSIVE AddWeights(_, _)
AddWeights(off_targets, n) ==
    IF n = 0 THEN 0
    ELSE AddWeights(off_targets, n - 1) + MismatchWeight(off_targets[n].mismatches)

\* Mutant: `risk_score = weight` in place of `risk_score += weight`.
score_offtarget_risk_last_only(off_targets) ==
    IF off_targets = <<>> THEN 0
    ELSE MismatchWeight(off_targets[Len(off_targets)].mismatches)

\* The score is a float holding 0.0 plus integer weights, hence an integer.
score_offtarget_risk(off_targets) ==
    IF off_targets = <<>> THEN 0
    ELSE AddWeights(off_targets, Len(off_targets))

\* Mutant: a score of exactly 25 still counts as 'Low'.
categorize_risk_level_25_is_low(risk_score) ==
    IF risk_score = 0 THEN "None"
    ELSE IF risk_score <= 25 THEN "Low"
    ELSE IF risk_score < 100 THEN "Medium"
    ELSE IF risk_score < 200 THEN "High"
    ELSE "Very High"

\* The if/elif chain of assess_offtarget_risk.
categorize_risk_level(risk_score) ==
    IF risk_score = 0 THEN "None"
    ELSE IF risk_score < 25 THEN "Low"
    ELSE IF risk_score < 100 THEN "Medium"
    ELSE IF risk_score < 200 THEN "High"
    ELSE "Very High"

assess_offtarget_risk(guide, target, max_mm) ==
    LET off_targets == find_similar_sequences(guide, target, max_mm)
        risk_score == score_offtarget_risk(off_targets)
    IN  [off_targets |-> off_targets,
         risk_score |-> risk_score,
         risk_level |-> categorize_risk_level(risk_score),
         num_offtargets |-> Len(off_targets)]

\* A row with the three off-target columns set from its assessment.
OfftargetRow(row, assessment) ==
    [f \in DOMAIN row \cup {"num_offtargets", "offtarget_risk_score", "offtarget_risk_level"} |->
        CASE f = "num_offtargets" -> assessment.num_offtargets
          [] f = "offtarget_risk_score" -> assessment.risk_score
          [] f = "offtarget_risk_level" -> assessment.risk_level
          [] OTHER -> row[f]]

\* The table add_offtarget_scores returns: every row of the copy is written
\* through its row label (scored_df.at[idx, ...]); row labels are distinct in
\* every table the finder and the scorer produce.
add_offtarget_scores(df, target, max_mm) ==
    [k \in 1..Len(df) |->
        OfftargetRow(df[k], assess_offtarget_risk(df[k].guide_sequence, target, max_mm))]

risk_order ==
    [level \in {"None", "Low", "Medium", "High", "Very High"} |->
        CASE level = "None" -> 0
          [] level = "Low" -> 1
          [] level = "Medium" -> 2
          [] level = "High" -> 3
          [] level = "Very High" -> 4]

\* Mutant: the ceiling itself is filtered out (< in place of <=).
filter_by_offtarget_risk_below_ceiling(df, max_level) ==
    LET max_risk_value == IF max_level \in DOMAIN risk_order THEN risk_order[max_level] ELSE 2
        Keep(row) == /\ row.offtarget_risk_level \in DOMAIN risk_order
                     /\ risk_order[row.offtarget_risk_level] < max_risk_value
    IN  SelectSeq(df, Keep)

\* The boolean mask keeps the rows, with their labels, in their order; a
\* level outside risk_order maps to NaN, which compares False.
filter_by_offtarget_risk(df, max_level) ==
    LET max_risk_value == IF max_level \in DOMAIN risk_order THEN risk_order[max_level] ELSE 2
        Keep(row) == /\ row.offtarget_risk_level \in DOMAIN risk_order
                     /\ risk_order[row.offtarget_risk_level] <= max_risk_value
    IN  SelectSeq(df, Keep)

(***************************************************************************)
(* interface.py: the analysis run.                                         *)
(*                                                                         *)
(* The run's tables are DataFrame objects.  frames lists the objects in    *)
(* the order they are created and a table variable holds the position of   *)
(* its object, so that writing into an object shows in every variable that *)
(* refers to it.  A call returns the new list of objects and the position  *)
(* of the object it returns.                                               *)
(***************************************************************************)
ValidBases == {"A", "T", "G", "C", "N"}
MinSequenceLength == 23
TopForOfftarget == 50

\* Mutant: the length check is missing.
validate_no_length_check(seq) ==
    IF \E k \in 1..Len(seq) : seq[k] \notin ValidBases THEN "error_invalid"
    ELSE "validated"

\* The checks on the upper-cased sequence: where the run goes next.
validate(seq) ==
    IF \E k \in 1..Len(seq) : seq[k] \notin ValidBases THEN "error_invalid"
    ELSE IF Len(seq) < MinSequenceLength THEN "error_short"
    ELSE "validated"

\* A new DataFrame object holding table.
NewFrame(fr, table) == [frames |-> Append(fr, table), returned |-> Len(fr) + 1]

\* Mutant: no copy is taken, the same object is returned.
copy_same_object(fr, df) == [frames |-> fr, returned |-> df]

\* DataFrame.copy(): a new object with the same rows.
copy(fr, df) == [frames |-> Append(fr, fr[df]), returned |-> Len(fr) + 1]

\* DataFrame.head(n) and the boolean mask on efficiency_score (min_score is in
\* points, efficiency_score in hundredths of a point).
head(table, n) == SubSeq(table, 1, Min(n, Len(table)))
AtLeast(table, min_score) ==
    SelectSeq(table, LAMBDA row : row.efficiency_score >= min_score * 100)

\* find_all_guides(sequence): pd.DataFrame(all_guides) is a new object.
CallFindAllGuides(fr, seq) == NewFrame(fr, find_all_guides(seq))

\* score_all_guides on the non-empty table at df: the columns are written
\* into the copy, sort_values returns a new object, rank is written into it.
CallScoreAllGuides(fr, df, seq_len) ==
    LET made == copy(fr, df)
    IN  UNION {LET with_columns == [k \in 1..Len(fr[df]) |-> ScoredRow(fr[df][k], col[k])]
                   written == [made.frames EXCEPT ![made.returned] = with_columns]
               IN  {NewFrame(written, AddRank(sorted)) :
                       sorted \in sort_values({with_columns[k] : k \in 1..Len(with_columns)})}
               : col \in EfficiencyColumn(fr[df], seq_len, Len(fr[df]))}

\* add_offtarget_scores on the table at df: the columns are written into the
\* copy, which is returned.
CallAddOfftargetScores(fr, df, target, max_mm) ==
    LET made == copy(fr, df)
    IN  [frames |-> [made.frames EXCEPT ![made.returned] =
                        add_offtarget_scores(fr[df], target, max_mm)],
         returned |-> made.returned]

\* filter_by_offtarget_risk on the table at df: the mask gives a new object.
CallFilterByOfftargetRisk(fr, df, max_level) ==
    NewFrame(fr, filter_by_offtarget_risk(fr[df], max_level))

(***************************************************************************)
(* Inputs of the finder: a fixed body with freely drawn bases in front of  *)
(* and behind it.                                                          *)
(***************************************************************************)
EndBases == {"C", "G", "N", "a"}

StringsUpTo(n, alphabet) == UNION {[1..k -> alphabet] : k \in 0..n}

Bodies ==
    { \* the 20-base test guide of the sources
      <<"A","T","G","C","A","T","G","C","A","T","G","C","A","T","G","C","A","T","G","C">>,
      \* 21 bases, PAMs too close to the start, CC for the reverse strand
      <<"C","C","G","G","A","T","T","T","T","A","C","C","T","G","C","T","C","T","N","G","C">>,
      \* 20 bases: a run of G, overlapping PAM windows
      <<"G","G","G","G","G","G","G","G","G","G","G","G","G","G","G","G","G","G","G","G">>,
      \* 20 bases in lower case
      <<"c","c","c","a","t","g","n","a","t","t","a","g","g","c","a","t","c","c","a","t">> }

InputSeqs ==
    {h \o b \o t : h \in StringsUpTo(MaxHead, EndBases), b \in Bodies,
                   t \in StringsUpTo(MaxTail, EndBases)}

(***************************************************************************)
(* Inputs of the scorer.                                                   *)
(***************************************************************************)
\* GC percentages 0, 1/GcResolution, ..., 100, in units of 1/10000.
GcInputs == {(k * 10000) \div GcResolution : k \in 0..(100 * GcResolution)}

\* 20-base guides with k leading G/C bases followed by one repeated filler:
\* every GC count 0..20, with and without a poly-T stretch, with and without N.
GcRun(k, filler) ==
    [j \in 1..GuideLength |-> IF j <= k THEN (IF j % 2 = 1 THEN "G" ELSE "C") ELSE filler]

ScoreGuides == {GcRun(k, f) : k \in 0..GuideLength, f \in {"A", "T", "N"}}

(***************************************************************************)
(* Inputs of the off-target search.                                        *)
(***************************************************************************)
OtBases == {"A", "T", "c"}

OtGuides == StringsUpTo(MaxGuideLen, OtBases) \ {<<>>}
OtTargets == StringsUpTo(MaxTargetLen, OtBases)

\* Sequences given to the interface: a body (one of the finder's, or an A
\* in front of a run of G, whose guides are one mismatch away from each
\* other) followed by up to MaxUiTail bases, among them a lower-case base and
\* a character that is no base; and the empty input.
UiEndBases == {"G", "C", "a", "x"}
UiBodies == Bodies \cup {<<"A">> \o [k \in 1..21 |-> "G"]}
UiInputs ==
    {<<>>} \cup {body \o tail : body \in UiBodies, tail \in StringsUpTo(MaxUiTail, UiEndBases)}

\* Guide tables for add_offtarget_scores: all guides of one length over
\* OtBases, in lexicographic order, labelled 0, 1, 2, ...
OtBaseSeq == <<"A", "T", "c">>
NthGuide(n, len) == [j \in 1..len |-> OtBaseSeq[((n \div (3 ^ (len - j))) % 3) + 1]]
GuideTable(len) ==
    [k \in 1..(3 ^ len) |-> [index |-> k - 1, guide_sequence |-> NthGuide(k - 1, len)]]

\* Risk ceilings: the keys of risk_order and a string that is not a key.
RiskCeilings == {"None", "Low", "Medium", "High", "Very High", "Moderate"}

\* The guide and target of the module's own test (lines 247-248).
TestGuide == <<"A", "T", "G", "C", "A", "T", "G", "C", "A", "T", "G", "C",
               "A", "T", "G", "C", "A", "T", "G", "C">>
TestTarget ==
    TestGuide \o [k \in 1..100 |-> "N"]
              \o <<"A", "T", "G", "C", "A", "T", "G", "C", "A", "T", "G", "C",
                   "A", "T", "G", "C", "A", "T", "C", "C">>

(***************************************************************************)
(* Properties of the finder.                                               *)
(***************************************************************************)
U == upper(sequence)

\* Offset i (0-based) starts an NGG window of the upper-cased input.
IsGG(s, i) == i \in 0..(Len(s) - 3) /\ s[i + 2] = "G" /\ s[i + 3] = "G"

SeqToSet(q) == {q[k] : k \in 1..Len(q)}

RowsOf(strand) == {k \in 1..Len(guides_df) : guides_df[k].strand = strand}

\* C1: find_pam_sites returns exactly the offsets i in 0..len-3 with GG at
\* i+1, i+2; find_all_guides has a '+' guide at pam_site p iff p is such an
\* offset and p >= 20, its guide being s[p-20:p]; a sequence shorter than 23
\* bases yields no guide at all.
C1_PamSitesAndForwardGuides ==
    /\ pc = "pam_sites" =>
          /\ SeqToSet(pam_sites) = {i \in 0..Len(U) : IsGG(U, i)}
          /\ \A j, k \in 1..Len(pam_sites) : j < k => pam_sites[j] < pam_sites[k]
    /\ pc = "found" =>
          /\ \A p \in 0..Len(U) :
                (\E k \in RowsOf("+") : guides_df[k].pam_site = p)
                    <=> (IsGG(U, p) /\ p >= 20)
          /\ \A k \in RowsOf("+") :
                LET p == guides_df[k].pam_site
                IN  /\ p \in 20..(Len(U) - 3)
                    /\ guides_df[k].guide_sequence = [j \in 1..20 |-> U[p - 20 + j]]
          /\ Len(U) < 23 => guides_df = <<>>

\* C1 witness: a forward guide is emitted while another PAM lies too close
\* to the start to have a guide.
C1_Witness ==
    /\ pc = "found"
    /\ RowsOf("+") # {}
    /\ \E p \in 0..19 : IsGG(U, p)

\* C2: every guide has 20 bases, a 3-base PAM ending in GG, full_target =
\* guide + PAM, a strand of '+' or '-' and a pam_site inside the input.
C2_GuideShape ==
    pc = "found" =>
        \A k \in 1..Len(guides_df) :
            LET g == guides_df[k]
            IN  /\ Len(g.guide_sequence) = 20
                /\ Len(g.pam_sequence) = 3
                /\ g.pam_sequence[2] = "G" /\ g.pam_sequence[3] = "G"
                /\ g.full_target = g.guide_sequence \o g.pam_sequence
                /\ Len(g.full_target) = 23
                /\ g.strand \in {"+", "-"}
                /\ g.pam_site \in 0..(Len(sequence) - 3)

\* C2 witness: guides on both strands.
C2_Witness == pc = "found" /\ RowsOf("+") # {} /\ RowsOf("-") # {}

\* The forward-strand guide/PAM pairs found when s is scanned as a new input.
ForwardPairs(s) ==
    LET found == find_all_guides(s)
    IN  {<<found[k].guide_sequence, found[k].pam_sequence>> :
            k \in {j \in 1..Len(found) : found[j].strand = "+"}}

\* C3: for a '-' guide recorded at pam_site pos, the reverse complement of
\* the input region [pos, pos+23), scanned forward, gives exactly that
\* guide / PAM pair.
C3_ReverseRoundTrip ==
    pc = "found" =>
        \A k \in RowsOf("-") :
            LET g == guides_df[k]
                region == Slice(U, g.pam_site, g.pam_site + 23)
            IN  ForwardPairs(reverse_complement(region))
                    = {<<g.guide_sequence, g.pam_sequence>>}

\* C3 witness: a reverse-strand guide whose PAM is not at the very start of
\* the input.
C3_Witness ==
    /\ pc = "found"
    /\ \E k \in RowsOf("-") : guides_df[k].pam_site > 0

\* C4: '+' guides precede '-' guides; '+' guides come in increasing pam_site,
\* '-' guides in decreasing pam_site (increasing offset on the scanned
\* strand); no (strand, pam_site) pair occurs twice.
C4_OrderAndNoDuplicates ==
    pc = "found" =>
        \A j, k \in 1..Len(guides_df) :
            j < k =>
                LET a == guides_df[j]
                    b == guides_df[k]
                IN  /\ ~(a.strand = "-" /\ b.strand = "+")
                    /\ (a.strand = "+" /\ b.strand = "+") => a.pam_site < b.pam_site
                    /\ (a.strand = "-" /\ b.strand = "-") => a.pam_site > b.pam_site
                    /\ <<a.strand, a.pam_site>> # <<b.strand, b.pam_site>>

\* C4 witness: overlapping PAM windows give adjacent guides on the forward
\* strand, and the reverse strand has at least two guides too.
C4_Witness ==
    /\ pc = "found"
    /\ \E j, k \in RowsOf("+") : guides_df[k].pam_site = guides_df[j].pam_site + 1
    /\ Cardinality(RowsOf("-")) >= 2

\* C5: every guide_sequence is upper case and made of A, T, G, C only.
C5_GuideBasesATGC ==
    pc = "found" =>
        \A k \in 1..Len(guides_df) :
            SeqToSet(guides_df[k].guide_sequence) \subseteq {"A", "T", "G", "C"}

(***************************************************************************)
(* Properties of the scalar scoring functions.                             *)
(***************************************************************************)
Abs(x) == IF x >= 0 THEN x ELSE 0 - x

\* C6: calculate_efficiency_score returns a value in [0, 100]; it is the GC
\* sub-score minus 30 if poly-T, floored at 0, when no position is given, and
\* GC sub-score * 0.4 + position sub-score * 0.3 + 30, minus 30 if poly-T,
\* floored at 0, when 0 <= pam_site < sequence_length is given (the returned
\* value is that number rounded to 2 decimals, so within 0.005 of it).
C6_EfficiencyRange ==
    pc = "efficiency_scored" =>
        LET gc_sub == score_gc_content(calculate_gc_content(guide_sequence))
            with_pos == pam_position # None /\ sequence_length # None
            L == IF with_pos THEN sequence_length[1] ELSE 1
            p == IF with_pos THEN pam_position[1] ELSE 0
            pos_sub_L == IF 2 * p <= L THEN 100 * L ELSE 150 * L - 100 * p
            \* the claimed score, in units of 1 / (100000 * L)
            combined == IF with_pos
                        THEN 4 * gc_sub * L + 30000 * pos_sub_L + 3000000 * L
                        ELSE 10 * gc_sub
            penalty == IF has_poly_t(guide_sequence) THEN 3000000 * L ELSE 0
            claimed == Max(0, combined - penalty)
        IN  /\ result \in 0..10000
            /\ Abs(result * 1000 * L - claimed) <= 500 * L

\* C6 witness: a poly-T guide scored with a PAM in the second half of the
\* sequence.
C6_Witness ==
    /\ pc = "efficiency_scored"
    /\ has_poly_t(guide_sequence)
    /\ pam_position # None /\ sequence_length # None
    /\ 2 * pam_position[1] > sequence_length[1]

\* C7: score_gc_content(g) is 100 on [40, 60], 50 + (g-30)*5 on [30, 40),
\* 50 + (70-g)*5 on (60, 70], max(0, g*1.67) below 30, max(0, (100-g)*1.67)
\* above 70; 50 -> 100, 35 -> 75, 65 -> 75; the result is in [0, 100].
C7_GcScorePiecewise ==
    pc = "gc_scored" =>
        LET g == gc_content
            r == result
        IN  /\ (Pct(40) <= g /\ g <= Pct(60)) => r = Pct(100)
            /\ (Pct(30) <= g /\ g < Pct(40)) => r = Pct(50) + 5 * (g - Pct(30))
            /\ (Pct(60) < g /\ g <= Pct(70)) => r = Pct(50) + 5 * (Pct(70) - g)
            /\ g < Pct(30) => 100 * r = Max(0, 167 * g)
            /\ g > Pct(70) => 100 * r = Max(0, 167 * (Pct(100) - g))
            /\ g = Pct(50) => r = Pct(100)
            /\ g = Pct(35) => r = Pct(75)
            /\ g = Pct(65) => r = Pct(75)
            /\ r \in 0..Pct(100)

\* C7 witness: 35% GC has been scored 75.
C7_Witness == pc = "gc_scored" /\ gc_content = Pct(35) /\ result = Pct(75)

(***************************************************************************)
(* Properties of the ranking.                                              *)
(***************************************************************************)
\* A scored row without the columns score_all_guides added.
GuideColumns(row) == [f \in DOMAIN guides_df[1] |-> row[f]]

\* C8: for a non-empty guide table the output of score_all_guides holds
\* exactly the input guides (same multiset), is ordered by non-increasing
\* efficiency_score, and its rank column reads 1, 2, ..., N.
C8_SortedRankedPermutation ==
    pc = "scored" =>
        /\ Len(scored_df) = Len(guides_df)
        /\ \A k \in 1..Len(guides_df) :
              Cardinality({j \in 1..Len(scored_df) :
                              GuideColumns(scored_df[j]) = guides_df[k]})
                  = Cardinality({j \in 1..Len(guides_df) : guides_df[j] = guides_df[k]})
        /\ \A j, k \in 1..Len(scored_df) :
              j < k => scored_df[j].efficiency_score >= scored_df[k].efficiency_score
        /\ \A k \in 1..Len(scored_df) : scored_df[k].rank = k

\* C8 witness: a table of at least three guides whose best guide was not the
\* first one discovered.
C8_Witness ==
    /\ pc = "scored"
    /\ Len(scored_df) >= 3
    /\ scored_df[1].index # 0
    /\ scored_df[1].efficiency_score > scored_df[Len(scored_df)].efficiency_score

\* C9: guides of equal efficiency_score keep their discovery order (the row
\* labels assigned by find_all_guides), the earlier one getting the smaller rank.
C9_StableTies ==
    pc = "scored" =>
        \A j, k \in 1..Len(scored_df) :
            (j < k /\ scored_df[j].efficiency_score = scored_df[k].efficiency_score)
                => scored_df[j].index < scored_df[k].index

\* C15: for an input of at least 23 bases over A, T, G, C, N that yields no
\* guide on either strand, find_all_guides followed by score_all_guides ends
\* without a fault, with an empty ranked table.
C15_NoGuidesIsNotAFault ==
    (/\ pc \in {"scored", "KeyError"}
     /\ validate(sequence) = "validated"
     /\ guides_df = <<>>)
        => (pc = "scored" /\ scored_df = <<>>)

(***************************************************************************)
(* The calls.                                                              *)
(***************************************************************************)
NoInterface ==
    /\ max_risk_level = NoValue /\ include_offtarget = NoValue
    /\ frames = NoValue /\ refs = NoValue /\ calls = NoValue

Idle ==
    /\ pam_sites = NoValue /\ guides_df = NoValue /\ sequence_length = None
    /\ scored_df = NoValue /\ gc_content = NoValue /\ guide_sequence = NoValue
    /\ pam_position = None /\ target_sequence = NoValue
    /\ max_mismatches = NoValue /\ result = NoValue

Init ==
    /\ pc = "start"
    /\ sequence \in InputSeqs
    /\ Idle
    /\ NoInterface

FindPamSites ==
    /\ pc = "start"
    /\ pam_sites' = find_pam_sites(sequence)
    /\ pc' = "pam_sites"
    /\ UNCHANGED <<sequence, guides_df, sequence_length, scored_df, gc_content,
                   guide_sequence, pam_position, target_sequence, max_mismatches, result>>
    /\ UNCHANGED uiVars

FindAllGuides ==
    /\ pc = "start"
    /\ guides_df' = find_all_guides(sequence)
    /\ pc' = "found"
    /\ UNCHANGED <<sequence, pam_sites, sequence_length, scored_df, gc_content,
                   guide_sequence, pam_position, target_sequence, max_mismatches, result>>
    /\ UNCHANGED uiVars

\* score_all_guides on the table the finder returned, with or without the
\* sequence length.  An empty table is a DataFrame without columns, and
\* scored_df['guide_sequence'] raises KeyError.
ScoreAllGuides ==
    /\ pc = "found"
    /\ \E sl \in {None, Some(Len(sequence))} :
          /\ sequence_length' = sl
          /\ IF guides_df = <<>>
             THEN /\ pc' = "KeyError"
                  /\ scored_df' = scored_df
             ELSE /\ scored_df' \in score_all_guides(guides_df, sl)
                  /\ pc' = "scored"
    /\ UNCHANGED <<sequence, pam_sites, guides_df, gc_content,
                   guide_sequence, pam_position, target_sequence, max_mismatches, result>>
    /\ UNCHANGED uiVars

Next ==
    \/ FindPamSites
    \/ FindAllGuides
    \/ ScoreAllGuides

Spec == Init /\ [][Next]_vars

(***************************************************************************)
(* Direct calls of the scalar scoring functions.                           *)
(***************************************************************************)
InitScorer ==
    /\ NoInterface
    /\ sequence = NoValue /\ pam_sites = NoValue /\ guides_df = NoValue
    /\ scored_df = NoValue /\ target_sequence = NoValue /\ max_mismatches = NoValue
    /\ result = NoValue
    /\ \/ /\ pc = "score_gc_content"
          /\ gc_content \in GcInputs
          /\ guide_sequence = NoValue /\ pam_position = None
          /\ sequence_length = None
       \/ /\ pc = "calculate_efficiency_score"
          /\ gc_content = NoValue
          /\ guide_sequence \in ScoreGuides
          /\ \E len \in 1..MaxSeqLength :
                \/ pam_position = None /\ sequence_length = None
                \/ /\ sequence_length = Some(len)
                   /\ pam_position \in {Some(p) : p \in 0..(len - 1)}

ScoreGcContent ==
    /\ pc = "score_gc_content"
    /\ result' = score_gc_content(gc_content)
    /\ pc' = "gc_scored"
    /\ UNCHANGED <<sequence, pam_sites, guides_df, sequence_length, scored_df, gc_content,
                   guide_sequence, pam_position, target_sequence, max_mismatches>>
    /\ UNCHANGED uiVars

CalculateEfficiencyScore ==
    /\ pc = "calculate_efficiency_score"
    /\ result' \in calculate_efficiency_score(guide_sequence, pam_position, sequence_length)
    /\ pc' = "efficiency_scored"
    /\ UNCHANGED <<sequence, pam_sites, guides_df, sequence_length, scored_df, gc_content,
                   guide_sequence, pam_position, target_sequence, max_mismatches>>
    /\ UNCHANGED uiVars

NextScorer ==
    \/ ScoreGcContent
    \/ CalculateEfficiencyScore

SpecScorer == InitScorer /\ [][NextScorer]_vars

(***************************************************************************)
(* Direct calls of find_similar_sequences.                                 *)
(***************************************************************************)
\* Number of positions at which two equally long strings differ.
Hamming(a, b) == Cardinality({k \in 1..Len(a) : a[k] # b[k]})

\* The entries of the result recorded for a strand at a forward position.
EntriesAt(strand, pos) ==
    {k \in 1..Len(result) : result[k].strand = strand /\ result[k].position = pos}

\* C10: find_similar_sequences has exactly one entry for each window of
\* len(guide) bases of the target (offset i, recorded at i) and of its reverse
\* complement (offset i, recorded at len(target) - i - len(guide)) whose
\* number d of differing positions satisfies 0 < d <= max_mismatches, and no
\* other entry; perfect matches are not reported; every recorded position is
\* in 0..len(target)-len(guide).
C10_SimilarWindows ==
    pc = "similar_found" =>
        LET g == upper(guide_sequence)
            tg == upper(target_sequence)
            rc == reverse_complement(tg)
            m == Len(g)
            n == Len(tg)
            Win(s, i) == [j \in 1..m |-> s[i + j]]
            Scanned(strand) == IF strand = "+" THEN tg ELSE rc
            Recorded(strand, i) == IF strand = "+" THEN i ELSE n - i - m
            Hit(strand, i) == /\ Hamming(g, Win(Scanned(strand), i)) > 0
                              /\ Hamming(g, Win(Scanned(strand), i)) <= max_mismatches
        IN  /\ \A strand \in {"+", "-"} : \A i \in 0..(n - m) :
                  LET at == EntriesAt(strand, Recorded(strand, i))
                  IN  /\ Cardinality(at) = IF Hit(strand, i) THEN 1 ELSE 0
                      /\ \A k \in at :
                            /\ result[k].sequence = Win(Scanned(strand), i)
                            /\ result[k].mismatches = Hamming(g, Win(Scanned(strand), i))
            /\ \A k \in 1..Len(result) :
                  /\ result[k].strand \in {"+", "-"}
                  /\ result[k].position \in 0..(n - m)
                  /\ result[k].mismatches \in 1..max_mismatches

\* C10 witness: hits on both strands, the reverse one away from both ends of
\* the target, and a perfect forward match that is left out.
C10_Witness ==
    /\ pc = "similar_found"
    /\ \E k \in 1..Len(result) : result[k].strand = "+"
    /\ \E k \in 1..Len(result) :
          /\ result[k].strand = "-"
          /\ result[k].position > 0
          /\ result[k].position < Len(target_sequence) - Len(guide_sequence)
    /\ \E i \in 0..(Len(target_sequence) - Len(guide_sequence)) :
          Slice(upper(target_sequence), i, i + Len(guide_sequence)) = upper(guide_sequence)

\* The call of the module's own test: the test guide against the test target
\* with max_mismatches = 2.
TestCall ==
    /\ pc = "similar_found"
    /\ guide_sequence = TestGuide
    /\ target_sequence = TestTarget
    /\ max_mismatches = 2

\* C11 (as stated): the test call finds exactly one off-target, it has one
\* mismatch, and the perfect match at position 0 is not in the result.
C11_ExactlyOneOffTarget ==
    TestCall =>
        /\ Len(result) = 1
        /\ result[1].mismatches = 1
        /\ \A k \in 1..Len(result) : result[k].mismatches # 0

\* C11 (amended): the test call finds three off-targets: the forward window at
\* 120 with one mismatch, and the reverse-strand windows recorded at 118 and
\* at 2 with two mismatches each (18 guide bases next to two N); exactly one
\* off-target has one mismatch; the perfect match at position 0 is left out.
C11_ThreeOffTargets ==
    TestCall =>
        /\ Len(result) = 3
        /\ {<<result[k].position, result[k].mismatches, result[k].strand>> :
                k \in 1..Len(result)}
              = {<<120, 1, "+">>, <<118, 2, "-">>, <<2, 2, "-">>}
        /\ Cardinality({k \in 1..Len(result) : result[k].mismatches = 1}) = 1
        /\ \A k \in 1..Len(result) :
              /\ result[k].mismatches # 0
              /\ ~(result[k].position = 0 /\ result[k].strand = "+")

\* C11 witness: the test call has returned, with a reverse-strand hit.
C11_Witness == TestCall /\ \E k \in 1..Len(result) : result[k].strand = "-"

\* Number of returned off-targets with d mismatches.
SitesWith(d) ==
    Cardinality({k \in 1..Len(result.off_targets) : result.off_targets[k].mismatches = d})

\* C12: in every assessment risk_score is 50 per off-target with 1 mismatch,
\* 25 per off-target with 2, 10 per off-target with 3, 5 per off-target with
\* 4 and nothing for any other count; num_offtargets is the number of
\* returned off-targets; risk_score is never negative and is 0 for an empty
\* list.
C12_RiskScoreIsWeightedSum ==
    pc = "assessed" =>
        /\ result.risk_score
              = 50 * SitesWith(1) + 25 * SitesWith(2) + 10 * SitesWith(3) + 5 * SitesWith(4)
        /\ result.num_offtargets = Len(result.off_targets)
        /\ result.risk_score >= 0
        /\ result.off_targets = <<>> => result.risk_score = 0

\* C12 witness: an assessment with off-targets of 1, 2, 4 and more than 4
\* mismatches, two of them with the same count.
C12_Witness ==
    /\ pc = "assessed"
    /\ SitesWith(1) > 0 /\ SitesWith(2) > 1 /\ SitesWith(4) > 0
    /\ \E k \in 1..Len(result.off_targets) : result.off_targets[k].mismatches > 4

\* C18: with max_mismatches in 1..4 the three statements "risk_level is
\* 'None'", "risk_score is 0" and "num_offtargets is 0" are all true or all
\* false.
C18_NoneIffZeroIffEmpty ==
    (pc = "assessed" /\ max_mismatches \in 1..4) =>
        /\ (result.risk_level = "None") <=> (result.risk_score = 0)
        /\ (result.risk_score = 0) <=> (result.num_offtargets = 0)

\* C18 witness: an assessment whose off-targets all have 3 mismatches, the
\* smallest weight the small inputs reach.
C18_Witness ==
    /\ pc = "assessed"
    /\ max_mismatches \in 1..4
    /\ result.num_offtargets > 0
    /\ \A k \in 1..Len(result.off_targets) : result.off_targets[k].mismatches = 3

InitOffTarget ==
    /\ pc = "start"
    /\ \/ /\ guide_sequence \in OtGuides
          /\ target_sequence \in OtTargets
          /\ max_mismatches \in 1..MaxBudget
       \/ /\ guide_sequence = TestGuide
          /\ target_sequence = TestTarget
          /\ max_mismatches \in 1..MaxLongBudget
    /\ sequence = NoValue /\ pam_sites = NoValue /\ guides_df = NoValue
    /\ sequence_length = None /\ scored_df = NoValue /\ gc_content = NoValue
    /\ pam_position = None /\ result = NoValue
    /\ NoInterface

FindSimilarSequences ==
    /\ pc = "start"
    /\ result' = find_similar_sequences(guide_sequence, target_sequence, max_mismatches)
    /\ pc' = "similar_found"
    /\ UNCHANGED <<sequence, pam_sites, guides_df, sequence_length, scored_df, gc_content,
                   guide_sequence, pam_position, target_sequence, max_mismatches>>
    /\ UNCHANGED uiVars

AssessOfftargetRisk ==
    /\ pc = "start"
    /\ result' = assess_offtarget_risk(guide_sequence, target_sequence, max_mismatches)
    /\ pc' = "assessed"
    /\ UNCHANGED <<sequence, pam_sites, guides_df, sequence_length, scored_df, gc_content,
                   guide_sequence, pam_position, target_sequence, max_mismatches>>
    /\ UNCHANGED uiVars

NextOffTarget ==
    \/ FindSimilarSequences
    \/ AssessOfftargetRisk

SpecOffTarget == InitOffTarget /\ [][NextOffTarget]_vars

(***************************************************************************)
(* Direct calls of add_offtarget_scores and filter_by_offtarget_risk.      *)
(***************************************************************************)
\* The risk level of a score by the published thresholds.
Bucket(score) ==
    CASE score = 0 -> "None"
      [] score > 0 /\ score < 25 -> "Low"
      [] score >= 25 /\ score < 100 -> "Medium"
      [] score >= 100 /\ score < 200 -> "High"
      [] score >= 200 -> "Very High"

\* The position of a level in None < Low < Medium < High < Very High.
Ordinal(level) ==
    CASE level = "None" -> 0
      [] level = "Low" -> 1
      [] level = "Medium" -> 2
      [] level = "High" -> 3
      [] level = "Very High" -> 4

\* C13: every assessed row has the level of its score's bucket (0 'None',
\* (0,25) 'Low', [25,100) 'Medium', [100,200) 'High', 200 and more 'Very
\* High'), and of any two assessed rows the one with the larger risk score
\* never has the lower level.
C13_RiskBuckets ==
    pc \in {"offtarget_scored", "risk_filtered"} =>
        /\ \A k \in 1..Len(scored_df) :
              scored_df[k].offtarget_risk_level = Bucket(scored_df[k].offtarget_risk_score)
        /\ \A j, k \in 1..Len(scored_df) :
              scored_df[j].offtarget_risk_score > scored_df[k].offtarget_risk_score
                  => Ordinal(scored_df[j].offtarget_risk_level)
                        >= Ordinal(scored_df[k].offtarget_risk_level)

\* C13 witness: one table holds rows of four levels, among them the scores
\* 100 and 200 at which 'High' and 'Very High' begin.
C13_Witness ==
    /\ pc = "offtarget_scored"
    /\ {scored_df[k].offtarget_risk_level : k \in 1..Len(scored_df)}
          = {"None", "Medium", "High", "Very High"}
    /\ \E j, k \in 1..Len(scored_df) :
          /\ scored_df[j].offtarget_risk_score = 100
          /\ scored_df[k].offtarget_risk_score = 200

\* The rows of a table as a set (row labels make them distinct).
Rows(df) == {df[k] : k \in 1..Len(df)}

\* The levels at or below a ceiling.
LevelsUpTo(ceiling) ==
    {level \in {"None", "Low", "Medium", "High", "Very High"} :
        Ordinal(level) <= Ordinal(ceiling)}

\* C14: filter_by_offtarget_risk returns exactly the input rows whose level
\* is at or below the ceiling, unchanged and in their input order; with
\* 'Medium' no 'High' or 'Very High' row is kept and no 'None', 'Low' or
\* 'Medium' row is dropped.  (A ceiling that is no level acts as 'Medium'.)
C14_FilterKeepsLevelsUpToCeiling ==
    pc = "risk_filtered" =>
        LET ceiling == IF max_risk_level \in {"None", "Low", "Medium", "High", "Very High"}
                       THEN max_risk_level ELSE "Medium"
        IN  /\ Rows(result) = {r \in Rows(scored_df) :
                                  r.offtarget_risk_level \in LevelsUpTo(ceiling)}
            /\ Len(result) = Cardinality(Rows(result))
            /\ \A j, k \in 1..Len(result) : j < k => result[j].index < result[k].index
            /\ max_risk_level = "Medium" =>
                  /\ \A r \in Rows(result) :
                        r.offtarget_risk_level \notin {"High", "Very High"}
                  /\ \A r \in Rows(scored_df) :
                        r.offtarget_risk_level \in {"None", "Low", "Medium"}
                            => r \in Rows(result)

\* C14 witness: a 'Medium' ceiling keeps a 'Medium' row and drops a 'High'
\* row that stands before a kept row.
C14_Witness ==
    /\ pc = "risk_filtered"
    /\ max_risk_level = "Medium"
    /\ \E r \in Rows(result) : r.offtarget_risk_level = "Medium"
    /\ \E j, k \in 1..Len(scored_df) :
          /\ j < k
          /\ scored_df[j].offtarget_risk_level = "High"
          /\ scored_df[k] \in Rows(result)

InitBatch ==
    /\ pc = "start"
    /\ \E len \in 1..MaxGuideLen : guides_df = GuideTable(len)
    /\ target_sequence \in OtTargets
    /\ max_mismatches \in 1..MaxBudget
    /\ sequence = NoValue /\ pam_sites = NoValue /\ sequence_length = None
    /\ scored_df = NoValue /\ gc_content = NoValue /\ guide_sequence = NoValue
    /\ pam_position = None /\ result = NoValue
    /\ NoInterface

AddOfftargetScores ==
    /\ pc = "start"
    /\ scored_df' = add_offtarget_scores(guides_df, target_sequence, max_mismatches)
    /\ pc' = "offtarget_scored"
    /\ UNCHANGED <<sequence, pam_sites, guides_df, sequence_length, gc_content, guide_sequence,
                   pam_position, target_sequence, max_mismatches, result,
                   max_risk_level, include_offtarget, frames, refs, calls>>

FilterByOfftargetRisk ==
    /\ pc = "offtarget_scored"
    /\ max_risk_level' \in RiskCeilings
    /\ result' = filter_by_offtarget_risk(scored_df, max_risk_level')
    /\ pc' = "risk_filtered"
    /\ UNCHANGED <<sequence, pam_sites, guides_df, sequence_length, scored_df, gc_content,
                   guide_sequence, pam_position, target_sequence, max_mismatches,
                   include_offtarget, frames, refs, calls>>

NextBatch ==
    \/ AddOfftargetScores
    \/ FilterByOfftargetRisk

SpecBatch == InitBatch /\ [][NextBatch]_vars

(***************************************************************************)
(* The interface's analysis run (interface.py, lines 127-192).             *)
(***************************************************************************)
\* A table variable of the run and the table it refers to.
Table(name) == frames[refs[name]]

\* C16: a step of the run leaves every DataFrame object that existed before
\* it as it was (same rows, same order, same columns), leaves the sequence
\* as it was when the step calls a core function, and binds a table variable
\* it assigns to an object that did not exist before.
C16_InputsNotMutated ==
    [][/\ Len(frames') >= Len(frames)
       /\ \A i \in 1..Len(frames) : frames'[i] = frames[i]
       /\ calls' # calls => sequence' = sequence
       /\ \A name \in DOMAIN refs :
             refs'[name] # refs[name] => refs'[name] > Len(frames)]_vars

\* C16 witness: after the four core calls the guide table has no score
\* column, the table handed to add_offtarget_scores has no off-target column,
\* and the table handed to filter_by_offtarget_risk still has the row the
\* filter dropped.
C16_Witness ==
    /\ pc = "risk_filtered"
    /\ Len(Table("guides_df")) > 1
    /\ "efficiency_score" \notin DOMAIN Table("guides_df")[1]
    /\ "efficiency_score" \in DOMAIN Table("scored_guides")[1]
    /\ "offtarget_risk_level" \notin DOMAIN Table("top_for_offtarget")[1]
    /\ Len(Table("scored_guides_subset")) < Len(Table("top_for_offtarget"))
    /\ \E i \in 1..Len(frames) :
          /\ Len(frames[i]) = Len(Table("top_for_offtarget"))
          /\ "offtarget_risk_level" \in DOMAIN frames[i][1]

CoreOrder ==
    <<"find_all_guides", "score_all_guides", "add_offtarget_scores", "filter_by_offtarget_risk">>

\* C17: a core function has been called only if the upper-cased sequence has
\* only the characters A, T, G, C, N and at least 23 of them; otherwise the
\* run has stopped in an error state with no core function called; and the
\* core functions are called in the order find_all_guides, score_all_guides,
\* add_offtarget_scores, filter_by_offtarget_risk, the last two only when
\* off-target analysis is switched on.
C17_CoreOnlyAfterValidation ==
    LET valid == /\ \A k \in 1..Len(sequence) : sequence[k] \in {"A", "T", "G", "C", "N"}
                 /\ Len(sequence) >= 23
    IN  /\ calls # <<>> => valid
        /\ pc \in {"error_invalid", "error_short"} => (calls = <<>> /\ ~valid)
        /\ (pc # "start" /\ ~valid) => pc \in {"error_invalid", "error_short"}
        /\ Len(calls) <= 4
        /\ calls = SubSeq(CoreOrder, 1, Len(calls))
        /\ include_offtarget = FALSE => Len(calls) <= 2

\* C17 witness: a run that passed validation and called all four functions.
C17_Witness == pc = "risk_filtered" /\ calls = CoreOrder

InitUI ==
    /\ pc = "start"
    /\ sequence \in UiInputs
    /\ include_offtarget \in BOOLEAN
    /\ IF include_offtarget
       THEN /\ max_mismatches \in 1..4
            /\ max_risk_level \in {"Low", "Medium", "High"}
       ELSE /\ max_mismatches = NoValue
            /\ max_risk_level = NoValue
    /\ frames = <<>>
    /\ refs = [name \in {"guides_df", "scored_guides", "top_for_offtarget",
                          "scored_guides_subset", "final_guides", "top_guides"} |-> 0]
    /\ calls = <<>>
    /\ pam_sites = NoValue /\ guides_df = NoValue /\ sequence_length = None
    /\ scored_df = NoValue /\ gc_content = NoValue /\ guide_sequence = NoValue
    /\ pam_position = None /\ target_sequence = NoValue /\ result = NoValue

\* `if sequence and run_analysis:`, sequence = sequence.upper() and the two
\* checks, each ending the run with st.error and st.stop().
Validate ==
    /\ pc = "start"
    /\ sequence # <<>>
    /\ sequence' = upper(sequence)
    /\ pc' = validate(upper(sequence))
    /\ UNCHANGED <<pam_sites, guides_df, sequence_length, scored_df, gc_content,
                   guide_sequence, pam_position, target_sequence, max_mismatches, result,
                   max_risk_level, include_offtarget, frames, refs, calls>>

\* Step 1: guides_df = find_all_guides(sequence)
RunFindGuides ==
    /\ pc = "validated"
    /\ LET out == CallFindAllGuides(frames, sequence)
       IN  /\ frames' = out.frames
           /\ refs' = [refs EXCEPT !["guides_df"] = out.returned]
    /\ calls' = Append(calls, "find_all_guides")
    /\ pc' = "found"
    /\ UNCHANGED <<sequence, pam_sites, guides_df, sequence_length, scored_df, gc_content,
                   guide_sequence, pam_position, target_sequence, max_mismatches, result,
                   max_risk_level, include_offtarget>>

\* Step 2: scored_guides = score_all_guides(guides_df, sequence_length=len(sequence));
\* on an empty guide table the call raises KeyError after taking its copy.
RunScoreGuides ==
    /\ pc = "found"
    /\ calls' = Append(calls, "score_all_guides")
    /\ IF Table("guides_df") = <<>>
       THEN /\ frames' = copy(frames, refs["guides_df"]).frames
            /\ refs' = refs
            /\ pc' = "KeyError"
       ELSE /\ \E out \in CallScoreAllGuides(frames, refs["guides_df"], Some(Len(sequence))) :
                  /\ frames' = out.frames
                  /\ refs' = [refs EXCEPT !["scored_guides"] = out.returned]
            /\ pc' = "scored"
    /\ UNCHANGED <<sequence, pam_sites, guides_df, sequence_length, scored_df, gc_content,
                   guide_sequence, pam_position, target_sequence, max_mismatches, result,
                   max_risk_level, include_offtarget>>

\* Step 3: top_for_offtarget = scored_guides.head(50), then
\* scored_guides_subset = add_offtarget_scores(top_for_offtarget, sequence, max_mismatches)
AnalyzeOffTargets ==
    /\ pc = "scored"
    /\ include_offtarget = TRUE
    /\ LET top == NewFrame(frames, head(Table("scored_guides"), TopForOfftarget))
           out == CallAddOfftargetScores(top.frames, top.returned, sequence, max_mismatches)
       IN  /\ frames' = out.frames
           /\ refs' = [refs EXCEPT !["top_for_offtarget"] = top.returned,
                                    !["scored_guides_subset"] = out.returned]
    /\ calls' = Append(calls, "add_offtarget_scores")
    /\ pc' = "offtarget_scored"
    /\ UNCHANGED <<sequence, pam_sites, guides_df, sequence_length, scored_df, gc_content,
                   guide_sequence, pam_position, target_sequence, max_mismatches, result,
                   max_risk_level, include_offtarget>>

\* scored_guides_subset = filter_by_offtarget_risk(scored_guides_subset, max_risk_level)
FilterRisk ==
    /\ pc = "offtarget_scored"
    /\ LET out == CallFilterByOfftargetRisk(frames, refs["scored_guides_subset"], max_risk_level)
       IN  /\ frames' = out.frames
           /\ refs' = [refs EXCEPT !["scored_guides_subset"] = out.returned]
    /\ calls' = Append(calls, "filter_by_offtarget_risk")
    /\ pc' = "risk_filtered"
    /\ UNCHANGED <<sequence, pam_sites, guides_df, sequence_length, scored_df, gc_content,
                   guide_sequence, pam_position, target_sequence, max_mismatches, result,
                   max_risk_level, include_offtarget>>

\* The minimum-score mask and head(num_guides_to_show), both new objects; an
\* empty selection ends the run with st.warning and st.stop().
SelectTopGuides ==
    /\ \/ pc = "risk_filtered"
       \/ pc = "scored" /\ include_offtarget = FALSE
    /\ \E min_efficiency_score \in {0, 50, 100}, num_guides_to_show \in {5, 50} :
          LET chosen == IF include_offtarget THEN Table("scored_guides_subset")
                        ELSE Table("scored_guides")
              final == NewFrame(frames, AtLeast(chosen, min_efficiency_score))
              top == NewFrame(final.frames, head(final.frames[final.returned], num_guides_to_show))
          IN  /\ frames' = top.frames
              /\ refs' = [refs EXCEPT !["final_guides"] = final.returned,
                                       !["top_guides"] = top.returned]
              /\ pc' = IF top.frames[top.returned] = <<>> THEN "no_results" ELSE "selected"
    /\ UNCHANGED <<sequence, pam_sites, guides_df, sequence_length, scored_df, gc_content,
                   guide_sequence, pam_position, target_sequence, max_mismatches, result,
                   max_risk_level, include_offtarget, calls>>

NextUI ==
    \/ Validate
    \/ RunFindGuides
    \/ RunScoreGuides
    \/ AnalyzeOffTargets
    \/ FilterRisk
    \/ SelectTopGuides

SpecUI == InitUI /\ [][NextUI]_vars

====
